---- MODULE Spec2Model ----
(***************************************************************************)
(* State-machine model of detray's navigator (core/include/tools/          *)
(* navigator.hpp): the per-track navigation state, its two candidate       *)
(* kernels, and the status()/target() calls, driven by a caller that       *)
(* steps the track and lowers the trust level.                             *)
(*                                                                         *)
(* Lengths are integers in units of the on-surface tolerance, so that      *)
(* "path < on_surface_tolerance" is "path < 1".                            *)
(***************************************************************************)
EXTENDS Integers, Sequences, FiniteSets, TLC

\* ------------------------------------------------------------------ bounds
\* The track moves on the grid XMin..XMax x -YMax..YMax, where XMin..XMax is
\* the extent of the detector and one unit beyond its first portal.
YMax == 1
\* The caller disturbs the navigation (bends the track, lowers the trust
\* level, ends the navigation) at most this often.
MaxDisturb == 1
\* Longest candidate list a kernel may grow to (initialize_kernel appends).
MaxCand == 3
\* Longest object trace recorded by the tracing inspector.
MaxTrace == 6


\* --------------------------------------------------------- program constants
\* numeric_limits<scalar>::infinity(), the initial distance_to_next
Inf == 1000
\* navigation_state::on_surface_tolerance, in model length units
on_surface_tolerance == 1
\* navigation_trust_level
e_no_trust == 0
e_fair_trust == 1
e_high_trust == 3
e_full_trust == 4
\* dindex_invalid, the sentinel index
dindex_invalid == 0 - 1

TrustLevels == {e_no_trust, e_fair_trust, e_high_trust, e_full_trust}

\* navigation_status
Statuses == {"on_target", "abort", "unknown", "towards_surface",
             "on_surface", "towards_portal", "on_portal"}

\* ------------------------------------------------------------------ detector
\* A plane perpendicular to the x axis at x, whose mask accepts the local
\* coordinate lo..hi; link is the neighbour volume of a portal (0 for a
\* sensitive surface).
Plane(x, lo, hi, link) == [x |-> x, lo |-> lo, hi |-> hi, link |-> link]

\* The detector: four volumes along x. Volume 0 holds two surfaces (the
\* second with a narrow mask), volume 1 is a pass-through region without
\* surfaces, volume 2 holds two coplanar surfaces, volume 3 holds one
\* surface two units beyond its portal to volume 2. The outer portals link
\* to the world sentinel; a portal has the same index in the two volumes
\* it joins.
Detector ==
  << [lo |-> 0, hi |-> 3,
      surfaces |-> << Plane(2, 0, 1, 0), Plane(1, 0 - 1, 1, 0) >>,
      portals  |-> << Plane(0, 0 - 2, 2, dindex_invalid), Plane(3, 0 - 2, 2, 1) >>],
     [lo |-> 3, hi |-> 4,
      surfaces |-> << >>,
      portals  |-> << Plane(4, 0 - 2, 2, 2), Plane(3, 0 - 2, 2, 0) >>],
     [lo |-> 4, hi |-> 6,
      surfaces |-> << Plane(5, 0 - 1, 0, 0), Plane(5, 0, 1, 0) >>,
      portals  |-> << Plane(4, 0 - 2, 2, 1), Plane(6, 0 - 2, 2, 3) >>],
     [lo |-> 6, hi |-> 9,
      surfaces |-> << Plane(8, 0 - 1, 1, 0) >>,
      portals  |-> << Plane(9, 0 - 2, 2, dindex_invalid), Plane(6, 0 - 2, 2, 2) >>] >>

XMin == Detector[1].lo - 1
XMax == Detector[Len(Detector)].hi

\* Volume indices are 0-based as in the code.
VolumeIndices == 0 .. (Len(Detector) - 1)

\* detector.indexed_volume(index).surfaces() / .portals(); the sentinel
\* volume has no objects.
Surfaces(vol) == IF vol \in VolumeIndices THEN Detector[vol + 1].surfaces ELSE << >>
Portals(vol) == IF vol \in VolumeIndices THEN Detector[vol + 1].portals ELSE << >>

\* detector.indexed_volume(track.pos).index(): the volume whose bounds
\* contain the position, the sentinel outside the detector.
VolumeContaining(trk) ==
  IF \E v \in VolumeIndices : Detector[v + 1].lo <= trk.x /\ trk.x < Detector[v + 1].hi
  THEN CHOOSE v \in VolumeIndices : Detector[v + 1].lo <= trk.x /\ trk.x < Detector[v + 1].hi
  ELSE dindex_invalid

\* ------------------------------------------------------- intersection kernel
\* intersect(track, object, transforms, masks): the signed path to the plane
\* along the track direction and the mask test of the crossing point; a
\* track parallel to the plane misses it.
Intersect(trk, obj) ==
  IF trk.dx = 0
  THEN [path |-> Inf, status |-> "missed", link |-> obj.link]
  ELSE LET t  == (obj.x - trk.x) * trk.dx
           yy == trk.y + t * trk.dy
       IN [path |-> t,
           status |-> IF obj.lo <= yy /\ yy <= obj.hi THEN "inside" ELSE "outside",
           link |-> obj.link]

\* The intersection of object si (0-based) of a constituents store, with the
\* index and link the navigator writes into the record.
IntersectIndexed(trk, objs, si) ==
  LET r == Intersect(trk, objs[si + 1])
  IN [path |-> r.path, index |-> si, link |-> r.link, status |-> r.status]

\* A variant that compares the paths only
LessByPath(a, b) == a.path < b.path

\* intersection::operator< : by path, ties by object index.
Less(a, b) == a.path < b.path \/ (a.path = b.path /\ a.index < b.index)

RECURSIVE InsertSorted(_, _)
InsertSorted(s, r) ==
  IF s = << >> THEN << r >>
  ELSE IF Less(r, Head(s)) THEN << r >> \o s
  ELSE << Head(s) >> \o InsertSorted(Tail(s), r)

\* A variant of the sort that leaves the order as it is
KeepOrder(s) == s

\* std::sort(candidates.begin(), candidates.end())
RECURSIVE SortCandidates(_)
SortCandidates(s) ==
  IF s = << >> THEN << >> ELSE InsertSorted(SortCandidates(Tail(s)), Head(s))

\* --------------------------------------------------------- navigation kernel
\* navigation_kernel: the candidates, the cursor `next` as a 1-based position
\* (Len + 1 is candidates.end()), the capacity of the vector, and whether
\* `next` was invalidated by a reallocation and not assigned since.
EmptyKernel == [cand |-> << >>, next |-> 1, cap |-> 0, stale |-> FALSE]

\* A variant that never reports a kernel empty
NeverEmpty(k) == FALSE

\* navigation_kernel::empty
Empty(k) == k.cand = << >>

\* navigation_kernel::clear : the vector keeps its capacity
Clear(k) == [cand |-> << >>, next |-> 1, cap |-> k.cap, stale |-> FALSE]

\* is_exhausted(kernel): next == candidates.end(). Comparing an invalidated
\* iterator is undefined; ub is the outcome the build produces then.
IsExhausted(k, ub) == IF k.stale THEN ub ELSE k.next = Len(k.cand) + 1

\* vector growth on push_back beyond the capacity (doubling)
RECURSIVE GrowTo(_, _)
GrowTo(cap, len) ==
  IF len <= cap THEN cap ELSE GrowTo(IF cap = 0 THEN 1 ELSE 2 * cap, len)

\* ----------------------------------------------------------- navigation state
\* navigation_state. The inspector is a member of the state: it counts its
\* invocations during the current call (insp), keeps what it saw last (seen)
\* and, when tracing, the objects it saw reached (trace). ninit / nupd count
\* the initialize_kernel calls and the update_kernel calls made by the
\* current status()/target() call; endread records that the call read
\* portal_kernel.next while it was not pointing at a record; mid is the
\* state in which status() left its portal-kernel update, before
\* check_volume_switch; sorted holds the kernels ("s", "p") sort_and_set
\* has sorted during the current call; sas holds the kernel, the state
\* before and the state after the last sort_and_set of the current call;
\* upd holds, for every update_kernel call of the current call, the kernel,
\* the state before, the state after, the value returned and the cursor
\* positions at which the call and its nested calls were entered; ini holds,
\* for every initialize_kernel call of the current call, the kernel, the
\* number of objects of the range, the state before and the state after.
\* returned holds the status and current_index with which the last status()
\* call returned; it is kept across calls.
Core(n) == [sk |-> n.sk, pk |-> n.pk, vol |-> n.vol, dist |-> n.dist,
            status |-> n.status, cur |-> n.cur, trust |-> n.trust]

FreshState ==
  [sk |-> EmptyKernel, pk |-> EmptyKernel, vol |-> dindex_invalid,
   dist |-> Inf, status |-> "unknown", cur |-> dindex_invalid,
   trust |-> e_no_trust,
   insp |-> 0, seen |-> << >>, trace |-> << >>,
   ninit |-> 0, nupd |-> 0, endread |-> FALSE, mid |-> << >>, sorted |-> {},
   sas |-> << >>, upd |-> << >>, ini |-> << >>, returned |-> << >>]

\* Entry of a navigator call: the per-call bookkeeping starts afresh.
Enter(n) == [n EXCEPT !.insp = 0, !.ninit = 0, !.nupd = 0, !.endread = FALSE,
                      !.mid = << >>, !.sorted = {}, !.sas = << >>,
                      !.upd = << >>, !.ini = << >>]

GetK(n, kind) == IF kind = "s" THEN n.sk ELSE n.pk
SetK(n, kind, k) == IF kind = "s" THEN [n EXCEPT !.sk = k] ELSE [n EXCEPT !.pk = k]

\* A variant that yields the on-status where the towards-status is meant
TowardsAsOn(kind) == IF kind = "s" THEN "on_surface" ELSE "on_portal"

\* kSurfaceType ? e_towards_surface : e_towards_portal
Towards(kind) == IF kind = "s" THEN "towards_surface" ELSE "towards_portal"
\* A variant that yields the towards-status where the on-status is meant
OnAsTowards(kind) == IF kind = "s" THEN "towards_surface" ELSE "towards_portal"

\* kSurfaceType ? e_on_surface : e_on_portal
On(kind) == IF kind = "s" THEN "on_surface" ELSE "on_portal"

\* navigation.inspector(navigation): the object tracer records the state
\* when the status is on_surface / on_portal.
Inspect(n, tracing) ==
  [n EXCEPT !.insp = n.insp + 1,
            !.seen = << Core(n) >>,
            !.trace = IF tracing /\ n.status \in {"on_surface", "on_portal"}
                      THEN Append(n.trace, [vol |-> n.vol, status |-> n.status, index |-> n.cur])
                      ELSE n.trace]

\* A variant that does not assign the cursor
SortAndSetNoCursor(n, kind) ==
  LET k == GetK(n, kind)
      r == IF k.cand # << >>
           THEN LET sorted == SortCandidates(k.cand)
                    k1 == [k EXCEPT !.cand = sorted]
                IN [SetK(n, kind, k1) EXCEPT
                      !.sorted = n.sorted \cup {kind},
                      !.trust = e_full_trust,
                      !.dist = sorted[1].path,
                      !.cur = dindex_invalid,
                      !.status = Towards(kind)]
           ELSE n
  IN [r EXCEPT !.sas = << [kind |-> kind, pre |-> Core(n), post |-> Core(r)] >>]

\* A variant that does not copy the path of the first record into
\* distance_to_next
SortAndSetNoDistance(n, kind) ==
  LET k == GetK(n, kind)
      r == IF k.cand # << >>
           THEN LET sorted == SortCandidates(k.cand)
                    k1 == [k EXCEPT !.cand = sorted, !.next = 1, !.stale = FALSE]
                IN [SetK(n, kind, k1) EXCEPT
                      !.sorted = n.sorted \cup {kind},
                      !.trust = e_full_trust,
                      !.cur = dindex_invalid,
                      !.status = Towards(kind)]
           ELSE n
  IN [r EXCEPT !.sas = << [kind |-> kind, pre |-> Core(n), post |-> Core(r)] >>]

\* sort_and_set(navigation, kernel)
SortAndSet(n, kind) ==
  LET k == GetK(n, kind)
      r == IF k.cand # << >>
           THEN LET sorted == SortCandidates(k.cand)
                    k1 == [k EXCEPT !.cand = sorted, !.next = 1, !.stale = FALSE]
                IN [SetK(n, kind, k1) EXCEPT
                      !.sorted = n.sorted \cup {kind},
                      !.trust = e_full_trust,
                      !.dist = sorted[1].path,
                      \* the on-branch assignments are overwritten by the two
                      \* unconditional assignments that follow it
                      !.cur = dindex_invalid,
                      !.status = Towards(kind)]
           ELSE n
  IN [r EXCEPT !.sas = << [kind |-> kind, pre |-> Core(n), post |-> Core(r)] >>]

\* The inside hits of all objects, in object order
RECURSIVE InsideHits(_, _, _)
InsideHits(trk, objs, si) ==
  IF si >= Len(objs) THEN << >>
  ELSE LET r == IntersectIndexed(trk, objs, si)
       IN (IF r.status = "inside" THEN << r >> ELSE << >>) \o InsideHits(trk, objs, si + 1)

\* The record of one initialize_kernel call: the state it was entered with
\* and the state it left
RecordInit(n0, kind, nobj, r) ==
  [r EXCEPT !.ini = Append(n0.ini, [kind |-> kind, nobj |-> nobj,
                                    pre |-> Core(n0), post |-> Core(r)])]

\* initialize_kernel(navigation, kernel, track, constituents)
InitializeKernel(n0, kind, trk, objs) ==
  LET n == [n0 EXCEPT !.ninit = n0.ninit + 1]
  IN RecordInit(n0, kind, Len(objs),
           IF Len(objs) = 0 THEN n
           ELSE LET k    == GetK(n, kind)
                    hits == InsideHits(trk, objs, 0)
                    newc == k.cand \o hits
                    \* reserve(n_objects) reallocates when the capacity is smaller
                    k1   == [k EXCEPT !.cand = newc,
                                      !.cap = GrowTo(IF Len(objs) > k.cap THEN Len(objs) ELSE k.cap, Len(newc)),
                                      !.stale = k.stale \/ Len(objs) > k.cap]
                    n1   == IF hits # << >> THEN [n EXCEPT !.status = Towards(kind)] ELSE n
                IN SortAndSet(SetK(n1, kind, k1), kind))

\* A variant that leaves the cursor at the first candidate
ExhaustAtBegin(n, kind) ==
  LET k == GetK(n, kind)
  IN [SetK(n, kind, [k EXCEPT !.next = 1, !.stale = FALSE])
        EXCEPT !.trust = e_no_trust]

\* "This kernel is exhausted": the tail of update_kernel
Exhaust(n, kind) ==
  LET k == GetK(n, kind)
  IN [SetK(n, kind, [k EXCEPT !.next = Len(k.cand) + 1, !.stale = FALSE])
        EXCEPT !.trust = e_no_trust]

\* The fair-trust loop of update_kernel: every candidate is overwritten by
\* its new intersection, whatever its status
Reintersect(trk, objs, cand) ==
  [i \in 1 .. Len(cand) |-> IntersectIndexed(trk, objs, cand[i].index)]

\* The return of update_kernel from its nested call, entered with the cursor
\* at position at: the nested call's success is passed on, its failure ends
\* in the exhausted tail
AfterNested(r, kind, at) ==
  IF r.ret
  THEN [r EXCEPT !.at = << at >> \o r.at]
  ELSE [n |-> Exhaust(r.n, kind), ret |-> FALSE, at |-> << at >> \o r.at]

\* update_kernel(navigation, kernel, track, constituents) without the
\* empty-kernel entry: [n, ret, at], where at lists the cursor position on
\* entry to the call and to each of its nested calls
RECURSIVE UpdateNonEmpty(_, _, _, _)
UpdateNonEmpty(n, kind, trk, objs) ==
  LET k == GetK(n, kind)
  IN IF n.trust >= e_high_trust /\ k.next # Len(k.cand) + 1
     THEN LET si  == k.cand[k.next].index
              sfi == IntersectIndexed(trk, objs, si)
          IN IF sfi.status = "inside"
             THEN LET k1 == [k EXCEPT !.cand[k.next] = sfi]
                      n1 == [SetK(n, kind, k1) EXCEPT !.dist = sfi.path]
                  IN IF sfi.path < on_surface_tolerance
                     THEN IF kind = "s"
                          THEN [n |-> [SetK(n1, kind, [k1 EXCEPT !.next = k.next + 1])
                                         EXCEPT !.status = On(kind), !.cur = si,
                                                !.trust = e_high_trust],
                                ret |-> TRUE, at |-> << k.next >>]
                          ELSE [n |-> [n1 EXCEPT !.status = On(kind), !.cur = si],
                                ret |-> TRUE, at |-> << k.next >>]
                     ELSE [n |-> [n1 EXCEPT !.status = Towards(kind), !.trust = e_full_trust],
                           ret |-> TRUE, at |-> << k.next >>]
             ELSE LET n2 == SetK(n, kind, [k EXCEPT !.next = k.next + 1])
                  IN AfterNested(UpdateNonEmpty(n2, kind, trk, objs), kind, k.next)
     ELSE IF n.trust = e_fair_trust
     THEN LET k1 == [k EXCEPT !.cand = Reintersect(trk, objs, k.cand)]
              n1 == SortAndSet(SetK(n, kind, k1), kind)
          IN IF n1.trust = e_high_trust
             THEN [n |-> n1, ret |-> TRUE, at |-> << k.next >>]
             ELSE [n |-> Exhaust(n1, kind), ret |-> FALSE, at |-> << k.next >>]
     ELSE [n |-> Exhaust(n, kind), ret |-> FALSE, at |-> << k.next >>]

\* The record of one update_kernel call: the state it was entered with, the
\* state it left, its return value and the cursor positions it read
RecordUpdate(n0, kind, r) ==
  [r EXCEPT !.n.upd = Append(n0.upd, [kind |-> kind, pre |-> Core(n0),
                                      post |-> Core(r.n), ret |-> r.ret,
                                      at |-> r.at])]

\* update_kernel(navigation, kernel, track, constituents): [n, ret]
UpdateKernel(n0, kind, trk, objs) ==
  LET n == [n0 EXCEPT !.nupd = n0.nupd + 1]
  IN RecordUpdate(n0, kind,
       IF Empty(GetK(n, kind))
       THEN [n |-> InitializeKernel(n, kind, trk, objs), ret |-> TRUE,
             at |-> << >>]
       ELSE UpdateNonEmpty(n, kind, trk, objs))

\* check_volume_switch(navigation). Reading next->link while next is not on
\* a record is undefined; ubLink is the value the build reads then.
CheckVolumeSwitch(n, ubLink) ==
  IF n.status = "on_portal"
  THEN LET valid == ~n.pk.stale /\ n.pk.next <= Len(n.pk.cand)
       IN [n EXCEPT !.vol = IF valid THEN n.pk.cand[n.pk.next].link ELSE ubLink,
                    !.endread = ~valid,
                    !.sk = Clear(n.sk),
                    !.pk = Clear(n.pk),
                    !.trust = e_no_trust]
  ELSE n

\* A variant that runs the inspector before the volume switch
InspectThenSwitch(n, tracing, ubLink) == CheckVolumeSwitch(Inspect(n, tracing), ubLink)

\* check_volume_switch(navigation); navigation.inspector(navigation);
SwitchThenInspect(n, tracing, ubLink) == Inspect(CheckVolumeSwitch(n, ubLink), tracing)

\* The volume the call works in: the indexed one, or the one found by the
\* global search
CallVolume(n, trk) == IF n.vol # dindex_invalid THEN n.vol ELSE VolumeContaining(trk)

\* The status and current_index a status() call returns with
Returning(r) == [r EXCEPT !.returned = << [status |-> r.status, cur |-> r.cur] >>]

\* navigator::status(navigation, track)
NavStatus(n0, trk, tracing, ubExh, ubLink) ==
  LET vol == CallVolume(n0, trk)
      n   == [Enter(n0) EXCEPT !.vol = vol]
  IN Returning(
             IF n.vol = dindex_invalid \/ n.trust = e_no_trust
             THEN LET n1 == InitializeKernel(n, "s", trk, Surfaces(vol))
                  IN IF Empty(n1.sk)
                     THEN SwitchThenInspect(InitializeKernel(n1, "p", trk, Portals(vol)), tracing, ubLink)
                     ELSE Inspect(n1, tracing)
             ELSE LET exh == IsExhausted(n.sk, ubExh)
                      us  == UpdateKernel(n, "s", trk, Surfaces(vol))
                  IN IF ~exh /\ us.ret
                     THEN Inspect(us.n, tracing)
                     ELSE LET base == IF exh THEN n ELSE us.n
                              up   == UpdateKernel(base, "p", trk, Portals(vol))
                              at   == [up.n EXCEPT !.mid = << Core(up.n) >>]
                          IN SwitchThenInspect(at, tracing, ubLink))

\* A variant whose exhausted-surfaces branch does not return after its
\* inspector call and runs on into the portal update
TargetWorkNoReturn(n0, trk, tracing) ==
  LET vol == CallVolume(n0, trk)
      n   == [Enter(n0) EXCEPT !.vol = vol]
  IN IF n.trust = e_high_trust
     THEN IF ~Empty(n.sk)
          THEN IF IsExhausted(n.sk, FALSE)
               THEN LET n1 == [n EXCEPT !.sk = Clear(n.sk), !.trust = e_no_trust]
                        n2 == Inspect(UpdateKernel(n1, "p", trk, Portals(vol)).n, tracing)
                    IN Inspect(UpdateKernel(n2, "p", trk, Portals(vol)).n, tracing)
               ELSE LET us == UpdateKernel(n, "s", trk, Surfaces(vol))
                    IN IF us.ret
                       THEN Inspect(us.n, tracing)
                       ELSE Inspect(UpdateKernel(us.n, "p", trk, Portals(vol)).n, tracing)
          ELSE Inspect(UpdateKernel(n, "p", trk, Portals(vol)).n, tracing)
     ELSE Inspect(n, tracing)

\* A variant that ends with a volume switch, as status() does
TargetWorkSwitching(n0, trk, tracing) ==
  LET r ==
        LET vol == CallVolume(n0, trk)
            n   == [Enter(n0) EXCEPT !.vol = vol]
        IN IF n.trust = e_high_trust
           THEN IF ~Empty(n.sk)
                THEN IF IsExhausted(n.sk, FALSE)
                     THEN LET n1 == [n EXCEPT !.sk = Clear(n.sk), !.trust = e_no_trust]
                          IN Inspect(UpdateKernel(n1, "p", trk, Portals(vol)).n, tracing)
                     ELSE LET us == UpdateKernel(n, "s", trk, Surfaces(vol))
                          IN IF us.ret
                             THEN Inspect(us.n, tracing)
                             ELSE Inspect(UpdateKernel(us.n, "p", trk, Portals(vol)).n, tracing)
                ELSE Inspect(UpdateKernel(n, "p", trk, Portals(vol)).n, tracing)
           ELSE Inspect(n, tracing)
  IN CheckVolumeSwitch(r, dindex_invalid)

\* navigator::target below its full-trust return
TargetWork(n0, trk, tracing) ==
  LET vol == CallVolume(n0, trk)
      n   == [Enter(n0) EXCEPT !.vol = vol]
  IN IF n.trust = e_high_trust
     THEN IF ~Empty(n.sk)
          THEN IF IsExhausted(n.sk, FALSE)
               THEN LET n1 == [n EXCEPT !.sk = Clear(n.sk), !.trust = e_no_trust]
                    IN Inspect(UpdateKernel(n1, "p", trk, Portals(vol)).n, tracing)
               ELSE LET us == UpdateKernel(n, "s", trk, Surfaces(vol))
                    IN IF us.ret
                       THEN Inspect(us.n, tracing)
                       ELSE Inspect(UpdateKernel(us.n, "p", trk, Portals(vol)).n, tracing)
          ELSE Inspect(UpdateKernel(n, "p", trk, Portals(vol)).n, tracing)
     ELSE Inspect(n, tracing)

\* A variant without the full-trust return
NavTargetNoShortcut(n0, trk, tracing) == TargetWork(n0, trk, tracing)

\* navigator::target(navigation, track)
NavTarget(n0, trk, tracing) ==
  IF n0.trust = e_full_trust THEN Enter(n0) ELSE TargetWork(n0, trk, tracing)

\* ------------------------------------------------------------------- system
\* nav: the navigation state of the track; trk: the track (position and
\* direction); tracing: whether the inspector type is the object tracer;
\* pc: the call the caller's loop makes next (status precedes target which
\* precedes the stepper advance); last: the operation performed last;
\* disturb: the number of disturbances by the caller so far; start: the ray
\* the track was started on, when the run follows a straight ray; outbound:
\* empty, or the object trace of the outbound leg once the ray was turned
\* round at its exit point; peer: a second track navigated against the same
\* detector (its navigation state, track, next call and last operation),
\* idle unless two tracks are navigated.
VARIABLES nav, trk, tracing, pc, last, disturb, start, outbound, peer

vars == << nav, trk, tracing, pc, last, disturb, start, outbound, peer >>

NoRay == [x |-> 0, y |-> 0, dx |-> 0, dy |-> 0]

\* The second track while a single track is navigated
NoPeer == [nav |-> FreshState, trk |-> NoRay, pc |-> "idle", last |-> "init"]

Directions == { d \in {0 - 1, 0, 1} \X {0 - 1, 0, 1} : d # << 0, 0 >> }

Tracks == [x : XMin .. XMax, y : (0 - YMax) .. YMax, dx : {0 - 1, 0, 1}, dy : {0 - 1, 0, 1}]

ValidTrack(t) == t \in Tracks /\ << t.dx, t.dy >> \in Directions

\* The links an out-of-range read of next->link may produce
AnyLink == VolumeIndices \cup {dindex_invalid}

\* The lists stay within the modelled length
Bounded(n) ==
  Len(n.sk.cand) <= MaxCand /\ Len(n.pk.cand) <= MaxCand /\ Len(n.trace) <= MaxTrace

\* The tracks inside the detector
StartTracks == { t \in Tracks : ValidTrack(t) /\ VolumeContaining(t) # dindex_invalid }

\* A fresh navigation state for a track anywhere inside the detector
Init ==
  /\ nav = FreshState
  /\ trk \in StartTracks
  /\ start = NoRay
  /\ tracing = FALSE
  /\ pc = "status"
  /\ last = "init"
  /\ disturb = 0
  /\ outbound = << >>
  /\ peer = NoPeer

\* The caller invokes navigator::status (again, when it did so last)
Status ==
  /\ pc \in {"status", "target"}
  /\ \E ubExh \in BOOLEAN, ubLink \in AnyLink :
        /\ nav' = NavStatus(nav, trk, tracing, ubExh, ubLink)
        /\ Bounded(nav')
  /\ pc' = "target"
  /\ last' = "status"
  /\ UNCHANGED << trk, tracing, disturb, start, outbound, peer >>

\* The caller invokes navigator::target (again, when it did so last)
Target ==
  /\ pc \in {"target", "advance"}
  /\ nav' = NavTarget(nav, trk, tracing)
  /\ Bounded(nav')
  /\ pc' = "advance"
  /\ last' = "target"
  /\ UNCHANGED << trk, tracing, disturb, start, outbound, peer >>

\* The track moved by s along its direction
Moved(t, s) == [t EXCEPT !.x = t.x + s * t.dx, !.y = t.y + s * t.dy]

\* The caller lowers the trust level to at most t; the bookkeeping of the
\* last navigator call is blank between calls
LowerTo(n, t) == [Enter(n) EXCEPT !.trust = IF n.trust > t THEN t ELSE n.trust,
                                  !.seen = << >>]

\* The stepper advances the track by distance_to_next and lowers the trust
\* level to at most high
Advance ==
  /\ pc = "advance"
  /\ nav.dist # Inf
  /\ ValidTrack(Moved(trk, nav.dist))
  /\ trk' = Moved(trk, nav.dist)
  /\ nav' = LowerTo(nav, e_high_trust)
  /\ pc' = "status"
  /\ last' = "advance"
  /\ UNCHANGED << tracing, disturb, start, outbound, peer >>

\* The directions next to d (a turn by one step of the direction grid)
Adjacent(d) ==
  { e \in Directions : e # d /\ (e[1] - d[1]) \in {0 - 1, 0, 1} /\ (e[2] - d[2]) \in {0 - 1, 0, 1}
                            /\ (e[1] = d[1] \/ e[2] = d[2]) }

\* The step has changed the direction of the track (a curved track); the
\* caller lowers the trust level to the level it finds fit
Bend ==
  /\ pc = "status"
  /\ disturb < MaxDisturb
  /\ \E d \in Adjacent(<< trk.dx, trk.dy >>) :
        trk' = [trk EXCEPT !.dx = d[1], !.dy = d[2]]
  /\ \E t \in {e_fair_trust, e_high_trust} : nav' = LowerTo(nav, t)
  /\ last' = "bend"
  /\ disturb' = disturb + 1
  /\ UNCHANGED << tracing, pc, start, outbound, peer >>

\* The caller lowers the trust level before a call
LowerTrust ==
  /\ pc \in {"status", "target"}
  /\ disturb < MaxDisturb
  /\ \E t \in {e_no_trust, e_fair_trust, e_high_trust} :
        /\ t < nav.trust
        /\ nav' = LowerTo(nav, t)
  /\ last' = "lower"
  /\ disturb' = disturb + 1
  /\ UNCHANGED << trk, tracing, pc, start, outbound, peer >>

\* An aborter actor ends the navigation
Actor ==
  /\ pc \in {"status", "target"}
  /\ disturb < MaxDisturb
  /\ nav.status \notin {"on_target", "abort"}
  /\ \E st \in {"on_target", "abort"} :
        nav' = [LowerTo(nav, e_full_trust) EXCEPT !.status = st]
  /\ last' = "actor"
  /\ disturb' = disturb + 1
  /\ UNCHANGED << trk, tracing, pc, start, outbound, peer >>

Next == Status \/ Target \/ Advance \/ Bend \/ LowerTrust \/ Actor

Spec == Init /\ [][Next]_vars

\* ------------------------------------------------------ straight-line check
\* A straight ray followed by the loop status() -> target() -> advance, the
\* inspector tracing the objects reached.
InitLine ==
  /\ nav = FreshState
  /\ trk \in StartTracks
  /\ start = trk
  /\ tracing = TRUE
  /\ pc = "status"
  /\ last = "init"
  /\ disturb = 0
  /\ outbound = << >>
  /\ peer = NoPeer

LoopStatus == pc = "status" /\ Status

LoopTarget == pc = "target" /\ Target

NextLine == LoopStatus \/ LoopTarget \/ Advance

SpecLine == InitLine /\ [][NextLine]_vars

\* ---------------------------------------------------------- round-trip check
\* status() has taken the track out of the detector through a portal
LeftDetector ==
  last = "status" /\ nav.status = "on_portal" /\ nav.vol = dindex_invalid
     /\ nav.mid # << >>

\* The ray has left the detector: it is shot again from its exit point with
\* the direction negated, on a fresh navigation state that starts in the
\* volume the ray left
Turn ==
  /\ tracing
  /\ outbound = << >>
  /\ LeftDetector
  /\ outbound' = << nav.trace >>
  /\ trk' = [trk EXCEPT !.dx = 0 - trk.dx, !.dy = 0 - trk.dy]
  /\ start' = trk'
  /\ nav' = [FreshState EXCEPT !.vol = nav.mid[1].vol]
  /\ pc' = "status"
  /\ last' = "turn"
  /\ UNCHANGED << tracing, disturb, peer >>

\* The loop of a leg ends when status() has taken the track out of the
\* detector
RoundTarget == ~LeftDetector /\ LoopTarget

NextRound == LoopStatus \/ RoundTarget \/ Advance \/ Turn

SpecRound == InitLine /\ [][NextRound]_vars

\* ------------------------------------------------------------- two tracks
\* Two tracks are navigated against the one detector, each with a
\* navigation state of its own, their status()/target() calls and steps
\* interleaved in any order.
TwoStarts == { t \in StartTracks : t.x = Detector[1].lo /\ t.dx = 1 }

InitTwo ==
  /\ nav = FreshState
  /\ trk \in TwoStarts
  /\ start = trk
  /\ tracing = TRUE
  /\ pc = "status"
  /\ last = "init"
  /\ disturb = 0
  /\ outbound = << >>
  /\ \E t \in TwoStarts :
        peer = [nav |-> FreshState, trk |-> t, pc |-> "status", last |-> "init"]

\* A variant in which the navigation state is kept in the navigator and so
\* is shared by the tracks
PeerStatusShared ==
  /\ peer.pc = "status"
  /\ \E ubExh \in BOOLEAN, ubLink \in AnyLink :
        /\ peer' = [peer EXCEPT !.nav = NavStatus(peer.nav, peer.trk, tracing, ubExh, ubLink),
                                !.pc = "target", !.last = "status"]
        /\ Bounded(peer'.nav)
  /\ nav' = peer'.nav
  /\ UNCHANGED << trk, tracing, pc, last, disturb, start, outbound >>

\* navigator::status is called for the second track
PeerStatus ==
  /\ peer.pc = "status"
  /\ \E ubExh \in BOOLEAN, ubLink \in AnyLink :
        /\ peer' = [peer EXCEPT !.nav = NavStatus(peer.nav, peer.trk, tracing, ubExh, ubLink),
                                !.pc = "target", !.last = "status"]
        /\ Bounded(peer'.nav)
  /\ UNCHANGED << nav, trk, tracing, pc, last, disturb, start, outbound >>

\* navigator::target is called for the second track
PeerTarget ==
  /\ peer.pc = "target"
  /\ peer' = [peer EXCEPT !.nav = NavTarget(peer.nav, peer.trk, tracing),
                          !.pc = "advance", !.last = "target"]
  /\ Bounded(peer'.nav)
  /\ UNCHANGED << nav, trk, tracing, pc, last, disturb, start, outbound >>

\* The stepper advances the second track
PeerAdvance ==
  /\ peer.pc = "advance"
  /\ peer.nav.dist # Inf
  /\ ValidTrack(Moved(peer.trk, peer.nav.dist))
  /\ peer' = [peer EXCEPT !.trk = Moved(peer.trk, peer.nav.dist),
                          !.nav = LowerTo(peer.nav, e_high_trust),
                          !.pc = "status", !.last = "advance"]
  /\ UNCHANGED << nav, trk, tracing, pc, last, disturb, start, outbound >>

NextTwo ==
  LoopStatus \/ LoopTarget \/ Advance \/ PeerStatus \/ PeerTarget \/ PeerAdvance

SpecTwo == InitTwo /\ [][NextTwo]_vars

\* -------------------------------------------------------------------- claims
\* A kernel without candidates whose cursor is at the end
Cleared(k) == k.cand = << >> /\ k.next = 1 /\ ~k.stale

\* status() returned from its portal-kernel update, which it left with the
\* status on_portal
CrossedPortal ==
  last = "status" /\ nav.mid # << >> /\ nav.mid[1].status = "on_portal"

\* C1: whenever a status() call ends its portal-kernel update with the status
\* on_portal, on return the current volume is the neighbour link of the
\* record under the portal cursor at that moment, both kernels are empty
\* with the cursor at the end, and the trust level is no_trust.
C1_VolumeSwitch ==
  CrossedPortal =>
    LET m == nav.mid[1]
    IN /\ m.pk.next <= Len(m.pk.cand)
       /\ nav.vol = m.pk.cand[m.pk.next].link
       /\ Cleared(nav.sk)
       /\ Cleared(nav.pk)
       /\ nav.trust = e_no_trust

\* The objects of the detector: owning volume, class and index
AllObjects ==
  { o \in [vol : VolumeIndices, kind : {"s", "p"}, index : 0 .. 1] :
      o.index < Len(IF o.kind = "s" THEN Surfaces(o.vol) ELSE Portals(o.vol)) }

ObjectPlane(o) ==
  IF o.kind = "s" THEN Surfaces(o.vol)[o.index + 1] ELSE Portals(o.vol)[o.index + 1]

\* The objects a ray crosses inside their mask, ahead of its origin
RayHits(ray) ==
  { o \in AllObjects : LET r == Intersect(ray, ObjectPlane(o))
                       IN r.status = "inside" /\ r.path >= 0 }

\* The object a trace entry reports: the inspector sees the class in the
\* status, the index in current_index, and the current volume, which for a
\* portal is already the neighbour volume when status() returns
Reports(e, o) ==
  /\ o.index = e.index
  /\ \/ e.status = "on_surface" /\ o.kind = "s" /\ o.vol = e.vol
     \/ e.status = "on_portal" /\ o.kind = "p"
          /\ (o.vol = e.vol \/ ObjectPlane(o).link = e.vol)

\* The path along the ray to the object an entry reports
RayPath(ray, o) == Intersect(ray, ObjectPlane(o)).path

\* C2: the objects reported on_surface / on_portal along a straight ray are
\* the ray's own crossings in the order of their distance. Stated here by
\* what that implies of every prefix of the object trace: each entry reports
\* an object the ray crosses ahead of its origin, no entry repeats an earlier
\* one, and the distances do not decrease along the trace.
C2_TraceFollowsRay ==
  tracing =>
    /\ \A i \in 1 .. Len(nav.trace) :
         \E o \in RayHits(start) : Reports(nav.trace[i], o)
    /\ \A i, j \in 1 .. Len(nav.trace) : i < j => nav.trace[i] # nav.trace[j]
    /\ \A i, j \in 1 .. Len(nav.trace) :
         i < j => \A o, q \in RayHits(start) :
                     (Reports(nav.trace[i], o) /\ Reports(nav.trace[j], q))
                        => RayPath(start, o) <= RayPath(start, q)

\* C3: every status() call invokes the inspector exactly once, and what the
\* inspector sees is the state the call returns (no mutation follows it).
C3_StatusInspectsOnceLast ==
  last = "status" => (nav.insp = 1 /\ nav.seen = << Core(nav) >>)

\* A status() call that switched the volume and was inspected afterwards
C3_Witness ==
  CrossedPortal /\ nav.insp = 1 /\ nav.seen # << >> /\ nav.seen[1].vol # nav.mid[1].vol

\* C4: a target() call made at full trust does not invoke the inspector and
\* leaves every field of the navigation state as it was.
C4_TargetFullTrustFrame ==
  [][(last' = "target" /\ nav.trust = e_full_trust)
        => (Core(nav') = Core(nav) /\ nav'.insp = 0 /\ nav'.trace = nav.trace)]_vars

\* target() returned at full trust without an inspector call
C4_Witness == last = "target" /\ nav.trust = e_full_trust /\ nav.insp = 0

\* C5 as stated: a target() call made below full trust performs at most one
\* initialize_kernel call and at most one update_kernel call, and invokes
\* the inspector exactly once.
C5_AtMostOneUpdate ==
  [][(last' = "target" /\ nav.trust # e_full_trust)
        => (nav'.ninit <= 1 /\ nav'.nupd <= 1 /\ nav'.insp = 1)]_vars

\* C5 amended: a target() call made below full trust performs at most one
\* initialize_kernel call and at most two update_kernel calls (the surface
\* kernel and, when that update fails, the portal kernel), and invokes the
\* inspector exactly once.
C5_AtMostTwoUpdates ==
  [][(last' = "target" /\ nav.trust # e_full_trust)
        => (nav'.ninit <= 1 /\ nav'.nupd <= 2 /\ nav'.insp = 1)]_vars

\* target() updated the surface kernel, failed, and updated the portal kernel
C5_Witness == last = "target" /\ nav.nupd = 2 /\ nav.insp = 1

\* The kernel target() aims at: the surface kernel while its cursor is on a
\* record, the portal kernel otherwise
OnRecord(k) == ~k.stale /\ k.next <= Len(k.cand)
Targeted(n) == IF OnRecord(n.sk) THEN n.sk ELSE n.pk

\* C6: on return from target(), either distance_to_next is a finite positive
\* value, the path of the candidate under the cursor of the targeted kernel,
\* or both kernels are exhausted and the status is abort or on_target.
C6_TargetResult ==
  last = "target" =>
    \/ /\ OnRecord(Targeted(nav))
       /\ nav.dist = Targeted(nav).cand[Targeted(nav).next].path
       /\ nav.dist > 0 /\ nav.dist < Inf
    \/ /\ ~OnRecord(nav.sk) /\ ~OnRecord(nav.pk)
       /\ nav.status \in {"abort", "on_target"}

\* C7: on every return from status() or target() with a status other than
\* on_target or abort, distance_to_next >= 0 and the current volume is a
\* volume of the detector.
C7_NonTerminalReturn ==
  (last \in {"status", "target"} /\ nav.status \notin {"on_target", "abort"})
     => (nav.dist >= 0 /\ nav.vol \in VolumeIndices)

\* C8: whenever the status is on_surface or on_portal, distance_to_next is
\* at most the on-surface tolerance.
C8_OnImpliesNear ==
  nav.status \in {"on_surface", "on_portal"} => nav.dist <= on_surface_tolerance

\* status() found the track on a surface
C8_Witness == last = "status" /\ nav.status = "on_surface" /\ nav.cur # dindex_invalid

\* The candidates of a kernel are in ascending order of path
Sorted(k) == \A i, j \in 1 .. Len(k.cand) : i < j => k.cand[i].path <= k.cand[j].path

\* C9: in every reachable state the records of the surface kernel and those
\* of the portal kernel are in ascending order of path.
C9_KernelsSorted == Sorted(nav.sk) /\ Sorted(nav.pk)

AllInside(k) == \A i \in 1 .. Len(k.cand) : k.cand[i].status = "inside"

\* C10: in every reachable state every record of either kernel has the
\* intersection status inside (a record whose object re-intersects as
\* outside or missed is not kept).
C10_OnlyInside == AllInside(nav.sk) /\ AllInside(nav.pk)

\* A navigator call after which kernel k still holds candidates did not
\* clear it: status() clears last, and target() never refills the surface
\* kernel it cleared
KeptBy(k) == k.cand # << >>

C12_SortAndSet ==
  \A i \in 1 .. Len(nav.sas) :
    LET c    == nav.sas[i]
        pre  == GetK(c.pre, c.kind)
        post == GetK(c.post, c.kind)
    IN IF pre.cand # << >>
       THEN /\ post.next = 1 /\ ~post.stale
            /\ Len(post.cand) = Len(pre.cand)
            /\ \A j \in 1 .. Len(post.cand) : post.cand[1].path <= post.cand[j].path
            /\ c.post.dist = post.cand[1].path
            /\ c.post.trust = e_full_trust
       ELSE c.post = c.pre

\* sort_and_set reordered a kernel of two candidates
C12_Witness ==
  /\ nav.sas # << >>
  /\ Len(GetK(nav.sas[1].pre, nav.sas[1].kind).cand) >= 2
  /\ GetK(nav.sas[1].pre, nav.sas[1].kind).cand # GetK(nav.sas[1].post, nav.sas[1].kind).cand

\* sort_and_set ran on a kernel without candidates
C12_WitnessEmpty ==
  nav.sas # << >> /\ GetK(nav.sas[1].pre, nav.sas[1].kind).cand = << >>

\* C13: when a status() call has switched the volume on a portal, the status
\* it returns is unknown.
C13_UnknownAfterSwitch == CrossedPortal => nav.status = "unknown"

\* status() crossed a portal whose link is the world sentinel
CrossedWorldPortal ==
  /\ CrossedPortal
  /\ OnRecord(nav.mid[1].pk)
  /\ nav.mid[1].pk.cand[nav.mid[1].pk.next].link = dindex_invalid

\* C14: when status() finds the track on a portal whose link is the world
\* sentinel, it returns with the status on_target and both kernels empty.
C14_WorldExit ==
  CrossedWorldPortal =>
    (nav.status = "on_target" /\ Cleared(nav.sk) /\ Cleared(nav.pk))

\* C15: a status() or target() call entered with the status on_target or
\* abort leaves the volume, both kernels, the trust level, distance_to_next,
\* current_index and the status as they were.
C15_TerminalEntryNoWork ==
  [][(last' \in {"status", "target"} /\ nav.status \in {"on_target", "abort"})
        => Core(nav') = Core(nav)]_vars

\* The track hits no surface and no portal of volume v inside its mask
NoInsideHit(t, v) ==
  InsideHits(t, Surfaces(v), 0) = << >> /\ InsideHits(t, Portals(v), 0) = << >>

\* C16: a status() call entered at no_trust in a volume of the detector,
\* with both kernels exhausted, whose initialization of the surface kernel
\* and of the portal kernel finds no inside hit, returns with the status
\* abort and the trust level no_trust.
C16_AbortWhenNothingHit ==
  [][(/\ last' = "status"
      /\ nav.trust = e_no_trust
      /\ CallVolume(nav, trk) \in VolumeIndices
      /\ ~OnRecord(nav.sk) /\ ~OnRecord(nav.pk)
      /\ NoInsideHit(trk, CallVolume(nav, trk)))
        => (nav'.status = "abort" /\ nav'.trust = e_no_trust)]_vars

\* C17: a status() call that directly follows a status() call, the track
\* unchanged between them, returns the navigation state the first call
\* returned.
C17_StatusIdempotent ==
  [][(last = "status" /\ last' = "status" /\ trk' = trk)
        => Core(nav') = Core(nav)]_vars

\* An entry of the object trace that reports a portal to the world (seen
\* by target() in the volume it bounds, or by status() after the switch)
WorldPortal(e) ==
  /\ e.status = "on_portal"
  /\ \A o \in AllObjects : Reports(e, o) => ObjectPlane(o).link = dindex_invalid

RECURSIVE Inner(_)
Inner(tr) ==
  IF tr = << >> THEN << >>
  ELSE (IF WorldPortal(Head(tr)) THEN << >> ELSE << Head(tr) >>) \o Inner(Tail(tr))

\* The crossing an entry reports: a surface by volume and index, a portal by
\* the plane it lies on (the two volumes it joins hold a portal each there)
Crossing(e) ==
  IF e.status = "on_surface"
  THEN [kind |-> "s", vol |-> e.vol, index |-> e.index, x |-> Surfaces(e.vol)[e.index + 1].x]
  ELSE LET o == CHOOSE o \in AllObjects : Reports(e, o)
       IN [kind |-> "p", vol |-> dindex_invalid, index |-> dindex_invalid, x |-> ObjectPlane(o).x]

Crossings(tr) == [i \in 1 .. Len(tr) |-> Crossing(tr[i])]

\* C18: the crossings the return leg of a straight ray records are those of
\* the outbound leg in reverse order, the portals to the world left out;
\* crossings on one plane may swap. While the return leg is under way its
\* crossings are the beginning of that reversed list, and when it has left
\* the detector they are the whole of it.
C18_RoundTrip ==
  outbound # << >> =>
    LET out  == Crossings(Inner(outbound[1]))
        back == Crossings(Inner(nav.trace))
    IN /\ Len(back) <= Len(out)
       /\ \A i \in 1 .. Len(back) :
            /\ back[i].x = out[Len(out) + 1 - i].x
            /\ \E j \in 1 .. Len(out) : out[j] = back[i]
       /\ LeftDetector =>
            /\ Len(back) = Len(out)
            /\ \A j \in 1 .. Len(out) : \E i \in 1 .. Len(back) : back[i] = out[j]

\* The inside surface hits of the ray in the volume it starts in, nearest
\* first
FirstHits == SortCandidates(InsideHits(start, Surfaces(VolumeContaining(start)), 0))

\* The nearest inside surface hit of the ray lies beyond the tolerance
NearestBeyondTolerance ==
  tracing /\ outbound = << >> /\ FirstHits # << >>
     /\ FirstHits[1].path > on_surface_tolerance

\* C19: from a fresh state in a volume whose nearest inside surface hit lies
\* at d beyond the tolerance, the first status() and the target() after it
\* return with the status towards_surface and distance_to_next = d; the
\* status() that follows the advance by d returns with the status
\* on_surface and current_index the index of that surface.
C19_FirstSurface ==
  /\ [](( /\ NearestBeyondTolerance
          /\ trk = start /\ last \in {"status", "target"}
          /\ nav.trace = << >> )
          => (nav.status = "towards_surface" /\ nav.dist = FirstHits[1].path))
  /\ [][( /\ NearestBeyondTolerance
          /\ last = "advance" /\ last' = "status"
          /\ nav.trace = << >>
          /\ trk = Moved(start, FirstHits[1].path) )
          => (nav'.status = "on_surface" /\ nav'.cur = FirstHits[1].index)]_vars

\* The track reached the surface it was started towards, two units away
C19_Witness ==
  /\ NearestBeyondTolerance
  /\ last = "status" /\ trk = Moved(start, FirstHits[1].path)
  /\ nav.status = "on_surface" /\ nav.cur = FirstHits[1].index
  /\ Len(nav.trace) = 1

\* The object trace without the immediate repetitions of an entry (target()
\* shows the inspector the state status() has already shown)
RECURSIVE Dedup(_)
Dedup(tr) ==
  IF Len(tr) <= 1 THEN tr
  ELSE IF tr[1] = tr[2] THEN Dedup(Tail(tr))
  ELSE << tr[1] >> \o Dedup(Tail(tr))

\* The two-volume scenario, on volumes 2 and 3 of the detector: the ray
\* starts in volume 2 towards volume 3, crosses a surface of volume 2 ahead
\* of it, then the portal to volume 3, then the surface of volume 3
TwoVolumeRay ==
  /\ tracing /\ outbound = << >>
  /\ VolumeContaining(start) = 2 /\ start.dx = 1
  /\ FirstHits # << >> /\ FirstHits[1].path > 0
  /\ Intersect(start, Surfaces(3)[1]).status = "inside"

\* The reports the scenario expects: the surfaces of volume 2, the portal
\* (index 1) with the current volume 3, the surface of volume 3
ExpectedReports ==
  [i \in 1 .. Len(FirstHits) |-> [vol |-> 2, status |-> "on_surface", index |-> FirstHits[i].index]]
    \o << [vol |-> 3, status |-> "on_portal", index |-> 1],
          [vol |-> 3, status |-> "on_surface", index |-> 0] >>

\* C20: in the two-volume scenario the loop reports the surface of the first
\* volume, then the portal with the current volume already the second one,
\* then the surface of the second volume, in this order; so the reports made
\* so far always agree with the beginning of that list.
C20_TwoVolumeOrder ==
  TwoVolumeRay =>
    \A i \in 1 .. Len(Dedup(nav.trace)) :
       i <= Len(ExpectedReports) => Dedup(nav.trace)[i] = ExpectedReports[i]

\* Every candidate of the surface kernel has been reached: the status is
\* on_surface and the surface cursor is at the end of a kernel with records
SurfacesDone(n) ==
  n.status = "on_surface" /\ n.sk.cand # << >> /\ ~n.sk.stale
     /\ n.sk.next = Len(n.sk.cand) + 1

\* The inside portal hits of track t in volume v, nearest first
PortalHits(t, v) == SortCandidates(InsideHits(t, Portals(v), 0))

\* What C21 expects of the state n a target() call returns at track t
PortalsTargeted(n, t) ==
  /\ Cleared(n.sk)
  /\ PortalHits(t, n.vol) # << >> =>
       /\ n.status = "towards_portal"
       /\ n.dist = PortalHits(t, n.vol)[1].path
       /\ OnRecord(n.pk)

\* C21: a target() call entered when every surface candidate has
\* been reached empties the surface kernel and, if a portal of the volume is
\* hit inside, returns with the status towards_portal and distance_to_next
\* the smallest portal path.
C21_SurfacesDoneThenPortals ==
  [][(last' = "target" /\ SurfacesDone(nav)) => PortalsTargeted(nav', trk)]_vars

AloneStep(n, t, c, n2, t2, c2) ==
  \/ /\ c = "status" /\ c2 = "target" /\ t2 = t
     /\ \E ubExh \in BOOLEAN, ubLink \in AnyLink :
          n2 = NavStatus(n, t, tracing, ubExh, ubLink)
  \/ /\ c = "target" /\ c2 = "advance" /\ t2 = t
     /\ n2 = NavTarget(n, t, tracing)
  \/ /\ c = "advance" /\ c2 = "status" /\ t2 = Moved(t, n.dist)
     /\ n2 = LowerTo(n, e_high_trust)

C24_CursorReadInRange == ~nav.endread

\* |path| < on_surface_tolerance
WithinTolerance(path) ==
  path < on_surface_tolerance /\ 0 - path < on_surface_tolerance

\* C25: after sort_and_set has run on a kernel with candidates, the status
\* is on_surface / on_portal (by the kind of the kernel) and current_index
\* is the index of the first record when that record's path is within the
\* tolerance; otherwise the status is towards_surface / towards_portal and
\* current_index is the invalid index.
C25_SortAndSetStatus ==
  \A i \in 1 .. Len(nav.sas) :
    LET c    == nav.sas[i]
        post == GetK(c.post, c.kind)
    IN GetK(c.pre, c.kind).cand # << >> =>
         IF WithinTolerance(post.cand[1].path)
         THEN c.post.status = On(c.kind) /\ c.post.cur = post.cand[1].index
         ELSE c.post.status = Towards(c.kind) /\ c.post.cur = dindex_invalid

\* The constituents an update_kernel call recorded in upd worked on
UpdObjects(u) == IF u.kind = "s" THEN Surfaces(u.pre.vol) ELSE Portals(u.pre.vol)

\* The kernel the recorded call did not work on, in state c
OtherK(c, kind) == IF kind = "s" THEN c.pk ELSE c.sk

\* The recorded call found candidates, a trust level of at least high and
\* the cursor on a record
HighTrustUpdate(u) ==
  LET k == GetK(u.pre, u.kind)
  IN /\ u.pre.vol # dindex_invalid
     /\ k.cand # << >> /\ ~k.stale /\ k.next <= Len(k.cand)
     /\ u.pre.trust >= e_high_trust

\* The new intersection of the object under the cursor of the recorded call
CursorHit(u) ==
  LET k == GetK(u.pre, u.kind)
  IN IntersectIndexed(trk, UpdObjects(u), k.cand[k.next].index)

\* C26: an update_kernel call on a kernel with candidates, at high or full
\* trust and with the cursor on a record whose object is intersected inside
\* again, leaves every other record of that kernel and the whole other
\* kernel as they were, sets distance_to_next to the new path, and sets
\* the on-status with current_index on that object when the path is within
\* the tolerance, the towards-status with full trust otherwise.
C26_CursorUpdateFrame ==
  \A i \in 1 .. Len(nav.upd) :
    LET u    == nav.upd[i]
        pre  == GetK(u.pre, u.kind)
        post == GetK(u.post, u.kind)
    IN (HighTrustUpdate(u) /\ CursorHit(u).status = "inside") =>
         /\ Len(post.cand) = Len(pre.cand)
         /\ \A j \in 1 .. Len(pre.cand) : j # pre.next => post.cand[j] = pre.cand[j]
         /\ OtherK(u.post, u.kind) = OtherK(u.pre, u.kind)
         /\ u.post.dist = CursorHit(u).path
         /\ IF WithinTolerance(CursorHit(u).path)
            THEN u.post.status = On(u.kind) /\ u.post.cur = CursorHit(u).index
            ELSE u.post.status = Towards(u.kind) /\ u.post.trust = e_full_trust

\* The position of the first record of cand from position i on whose object
\* is intersected inside by track t, or Len(cand) + 1 when there is none
RECURSIVE FirstInsideFrom(_, _, _, _)
FirstInsideFrom(t, objs, cand, i) ==
  IF i > Len(cand) THEN Len(cand) + 1
  ELSE IF IntersectIndexed(t, objs, cand[i].index).status = "inside" THEN i
  ELSE FirstInsideFrom(t, objs, cand, i + 1)

\* C27 as stated: in an update_kernel call at high or full trust whose
\* cursor object is no longer intersected inside, the cursor ends on the
\* first later record whose object is intersected inside, that record is
\* overwritten by the new intersection and targeted (distance_to_next is
\* its path) and the call returns true; when there is no such record the
\* cursor ends at the end position, the trust level is no_trust and the
\* call returns false.
C27_CursorOnFirstInside ==
  \A i \in 1 .. Len(nav.upd) :
    LET u    == nav.upd[i]
        pre  == GetK(u.pre, u.kind)
        post == GetK(u.post, u.kind)
        f    == FirstInsideFrom(trk, UpdObjects(u), pre.cand, pre.next)
    IN (HighTrustUpdate(u) /\ CursorHit(u).status # "inside") =>
         IF f <= Len(pre.cand)
         THEN LET hit == IntersectIndexed(trk, UpdObjects(u), pre.cand[f].index)
              IN /\ u.ret
                 /\ post.cand[f] = hit
                 /\ u.post.dist = hit.path
                 /\ post.next = f
         ELSE /\ ~u.ret
              /\ post.next = Len(post.cand) + 1
              /\ u.post.trust = e_no_trust

\* C27, amended: as above, but when the record found is a surface whose new
\* path is below the tolerance the surface is reached (on_surface) and the
\* cursor ends one position past it.
C27_AdvanceOnLoss ==
  \A i \in 1 .. Len(nav.upd) :
    LET u    == nav.upd[i]
        pre  == GetK(u.pre, u.kind)
        post == GetK(u.post, u.kind)
        f    == FirstInsideFrom(trk, UpdObjects(u), pre.cand, pre.next)
    IN (HighTrustUpdate(u) /\ CursorHit(u).status # "inside") =>
         IF f <= Len(pre.cand)
         THEN LET hit == IntersectIndexed(trk, UpdObjects(u), pre.cand[f].index)
              IN /\ u.ret
                 /\ post.cand[f] = hit
                 /\ u.post.dist = hit.path
                 /\ post.next = IF u.post.status = "on_surface" THEN f + 1 ELSE f
                 /\ u.post.status \in {On(u.kind), Towards(u.kind)}
         ELSE /\ ~u.ret
              /\ post.next = Len(post.cand) + 1
              /\ u.post.trust = e_no_trust

\* The cursor moved on to a later record that was hit
C27_Witness ==
  \E i \in 1 .. Len(nav.upd) :
    LET u   == nav.upd[i]
        pre == GetK(u.pre, u.kind)
    IN /\ HighTrustUpdate(u) /\ CursorHit(u).status # "inside"
       /\ FirstInsideFrom(trk, UpdObjects(u), pre.cand, pre.next) <= Len(pre.cand)
       /\ u.ret

\* No later record was hit
C27_WitnessNone ==
  \E i \in 1 .. Len(nav.upd) :
    LET u   == nav.upd[i]
        pre == GetK(u.pre, u.kind)
    IN /\ HighTrustUpdate(u) /\ CursorHit(u).status # "inside"
       /\ pre.next < Len(pre.cand)
       /\ FirstInsideFrom(trk, UpdObjects(u), pre.cand, pre.next) = Len(pre.cand) + 1
       /\ ~u.ret

\* C28: when an update_kernel call re-intersects the record under the
\* cursor and its new path is negative (the object lies behind the track),
\* the object is not reported as reached (the call does not leave the
\* on-status with current_index on that object) and the cursor is moved
\* past the record.
C28_NegativeNotReached ==
  \A i \in 1 .. Len(nav.upd) :
    LET u == nav.upd[i]
    IN (HighTrustUpdate(u) /\ CursorHit(u).status = "inside" /\ CursorHit(u).path < 0) =>
         /\ ~(u.post.status = On(u.kind) /\ u.post.cur = CursorHit(u).index)
         /\ GetK(u.post, u.kind).next > GetK(u.pre, u.kind).next

\* The recorded call found candidates and the trust level fair
FairTrustUpdate(u) ==
  /\ u.pre.vol # dindex_invalid
  /\ GetK(u.pre, u.kind).cand # << >>
  /\ u.pre.trust = e_fair_trust

\* C29: an update_kernel call on a kernel with candidates at fair trust
\* replaces every record by the new intersection of its object, sorted by
\* path, with the same object indices as before; it leaves the cursor on
\* the first record and the trust level full_trust, and returns true.
C29_FairTrustUpdate ==
  \A i \in 1 .. Len(nav.upd) :
    LET u    == nav.upd[i]
        pre  == GetK(u.pre, u.kind)
        post == GetK(u.post, u.kind)
    IN FairTrustUpdate(u) =>
         /\ post.cand = SortCandidates(Reintersect(trk, UpdObjects(u), pre.cand))
         /\ post.next = 1
         /\ u.post.trust = e_full_trust
         /\ u.ret

\* The recorded call found candidates and either the trust level no_trust
\* or the cursor at the end position
NoTrustOrExhausted(u) ==
  LET k == GetK(u.pre, u.kind)
  IN /\ u.pre.vol # dindex_invalid
     /\ k.cand # << >>
     /\ u.pre.trust = e_no_trust \/ (~k.stale /\ k.next = Len(k.cand) + 1)

\* C30: an update_kernel call on a kernel with candidates, made at no_trust
\* or with the cursor at the end position, leaves that kernel without
\* records, leaves the trust level no_trust and returns false.
C30_ExhaustedCleared ==
  \A i \in 1 .. Len(nav.upd) :
    LET u == nav.upd[i]
    IN NoTrustOrExhausted(u) =>
         /\ GetK(u.post, u.kind).cand = << >>
         /\ u.post.trust = e_no_trust
         /\ ~u.ret

\* The constituents an initialize_kernel call recorded in ini worked on
IniObjects(c) == IF c.kind = "s" THEN Surfaces(c.pre.vol) ELSE Portals(c.pre.vol)

\* C31: after initialize_kernel on a range of objects, whatever the kernel
\* held before, the kernel holds exactly the inside hits of the objects of
\* the range, one record each, sorted by path, with the cursor on the first
\* record; on an empty range the state is left as it was.
C31_InitializeExact ==
  \A i \in 1 .. Len(nav.ini) :
    LET c    == nav.ini[i]
        post == GetK(c.post, c.kind)
    IN IF c.nobj = 0
       THEN c.post = c.pre
       ELSE c.pre.vol # dindex_invalid =>
              /\ post.cand = SortCandidates(InsideHits(trk, IniObjects(c), 0))
              /\ post.cand # << >> => post.next = 1

\* The inside hits of track t in volume v the navigator targets first: the
\* surfaces when one is hit, the portals otherwise; sorted
VolumeHits(t, v) ==
  IF InsideHits(t, Surfaces(v), 0) # << >>
  THEN SortCandidates(InsideHits(t, Surfaces(v), 0))
  ELSE SortCandidates(InsideHits(t, Portals(v), 0))

\* C32: a target() call made at no_trust or at fair_trust in a volume with
\* at least one inside hit returns with distance_to_next the path of the
\* nearest candidate and the trust level full_trust.
C32_TargetLowTrust ==
  [][(/\ last' = "target"
      /\ nav.trust \in {e_no_trust, e_fair_trust}
      /\ nav.vol # dindex_invalid
      /\ VolumeHits(trk, nav.vol) # << >>)
     => (/\ nav'.trust = e_full_trust
         /\ nav'.dist = VolumeHits(trk, nav.vol)[1].path)]_vars

\* No object index occurs twice among the records of cand
DistinctIndices(cand) ==
  \A i, j \in 1 .. Len(cand) : cand[i].index = cand[j].index => i = j

\* C33: after every status() or target() call the surface kernel holds at
\* most as many records as the current volume has surfaces, the portal
\* kernel at most as many as the volume has portals, and no object index
\* occurs twice in one kernel.
C33_KernelsBounded ==
  (last \in {"status", "target"} /\ nav.vol # dindex_invalid) =>
     /\ Len(nav.sk.cand) <= Len(Surfaces(nav.vol))
     /\ Len(nav.pk.cand) <= Len(Portals(nav.vol))
     /\ DistinctIndices(nav.sk.cand)
     /\ DistinctIndices(nav.pk.cand)

\* The state a portal crossing leaves behind in a volume without surfaces
\* and with portals: both kernels cleared, no trust
InPassThrough(n) ==
  /\ n.vol # dindex_invalid
  /\ Len(Surfaces(n.vol)) = 0 /\ Len(Portals(n.vol)) > 0
  /\ Cleared(n.sk) /\ Cleared(n.pk)
  /\ n.trust = e_no_trust

\* C34: the status() call that follows a portal crossing into a volume
\* without surfaces and with portals initialises the portal kernel of that
\* volume: on return the portal kernel holds the inside portal hits of the
\* volume, sorted, and when there is such a hit the status is
\* towards_portal and distance_to_next is the path of the nearest one.
C34_PassThroughVolume ==
  [][(last' = "status" /\ InPassThrough(nav)) =>
        /\ nav'.pk.cand = PortalHits(trk, nav.vol)
        /\ PortalHits(trk, nav.vol) # << >> =>
              /\ nav'.vol = nav.vol
              /\ nav'.pk.next = 1
              /\ nav'.status = "towards_portal"
              /\ nav'.dist = PortalHits(trk, nav.vol)[1].path]_vars

\* status() has initialised the portals of the volume without surfaces
\* after a crossing (the on_portal of the crossing was still in place)
C34_Witness ==
  /\ last = "status" /\ Len(nav.ini) = 2
  /\ InPassThrough(nav.ini[1].pre) /\ nav.ini[1].pre.status = "on_portal"
  /\ nav.status = "towards_portal" /\ nav.pk.cand # << >>

\* C35: when a status() call has returned with the status on_surface or
\* on_portal and current_index i, the following status() call does not
\* return with that same status for the same object i.
C35_OnIsTransient ==
  [][(/\ last' = "status"
      /\ nav.returned # << >>
      /\ nav.returned[1].status \in {"on_surface", "on_portal"})
     => ~(/\ nav'.status = nav.returned[1].status
          /\ nav'.cur = nav.returned[1].cur)]_vars

\* C36: on return from status() or target(), current_index is an object
\* index exactly when the status is on_surface or on_portal; with the
\* status unknown, towards_surface or towards_portal it is the invalid
\* index.
C36_CurrentIndexIffOn ==
  last \in {"status", "target"} =>
     /\ nav.status \in {"on_surface", "on_portal"} => nav.cur # dindex_invalid
     /\ nav.status \in {"unknown", "towards_surface", "towards_portal"} =>
           nav.cur = dindex_invalid

\* C37: whenever status() or target() has returned with the trust level
\* full_trust, the targeted kernel has its cursor on a record and
\* distance_to_next is the path of that record.
C37_FullTrustTargets ==
  (last \in {"status", "target"} /\ nav.trust = e_full_trust) =>
     /\ OnRecord(Targeted(nav))
     /\ nav.dist = Targeted(nav).cand[Targeted(nav).next].path

\* A call has returned at full trust with the portal kernel targeted
\* behind a surface kernel that holds records
C37_Witness ==
  /\ last \in {"status", "target"} /\ nav.trust = e_full_trust
  /\ nav.sk.cand # << >> /\ ~OnRecord(nav.sk) /\ OnRecord(nav.pk)

\* C38: a target() call entered with a valid volume index returns with the
\* same volume index and does not empty the portal kernel, also when it
\* sets the status to on_portal; the volume index of a track inside a
\* volume changes only in a status() call.
C38_TargetKeepsVolume ==
  [][/\ (last' = "target" /\ nav.vol # dindex_invalid) =>
           /\ nav'.vol = nav.vol
           /\ Len(nav'.pk.cand) >= Len(nav.pk.cand)
     /\ (nav.vol # dindex_invalid /\ nav'.vol # nav.vol) => last' = "status"]_vars

\* target() itself has set the status to on_portal
C38_Witness ==
  /\ last = "target" /\ nav.status = "on_portal" /\ nav.pk.cand # << >>
  /\ nav.upd # << >>
  /\ nav.upd[Len(nav.upd)].kind = "p"
  /\ nav.upd[Len(nav.upd)].pre.status # "on_portal"
  /\ nav.upd[Len(nav.upd)].post.status = "on_portal"

\* C39: every update_kernel call on a kernel with candidates starts from a
\* valid cursor, each nested call is entered with the cursor strictly
\* further on than the call that made it, and the number of calls is at
\* most the number of records from the cursor to the end plus one.
C39_RecursionBounded ==
  \A i \in 1 .. Len(nav.upd) :
    LET u == nav.upd[i]
        k == GetK(u.pre, u.kind)
    IN k.cand # << >> =>
         /\ ~k.stale
         /\ u.at # << >> /\ u.at[1] = k.next
         /\ \A j \in 1 .. Len(u.at) - 1 : u.at[j] < u.at[j + 1]
         /\ \A j \in 1 .. Len(u.at) : u.at[j] <= Len(k.cand) + 1
         /\ Len(u.at) <= (Len(k.cand) + 1 - k.next) + 1

\* An update_kernel call has gone through two nested calls
C39_Witness ==
  \E i \in 1 .. Len(nav.upd) : Len(nav.upd[i].at) >= 3

\* ------------------------------------------------------------ progress check
\* The straight tracks along the x axis: they stay within the masks of the
\* portals, so that every volume on their way is closed for them and their
\* way leads through the chain of volumes to a world portal
AxisTracks == { t \in StartTracks : t.dy = 0 /\ t.dx # 0 }

\* The loop status() -> target() -> advance on such a track, without an
\* object tracer
InitLoop ==
  /\ nav = FreshState
  /\ trk \in AxisTracks
  /\ start = trk
  /\ tracing = FALSE
  /\ pc = "status"
  /\ last = "init"
  /\ disturb = 0
  /\ outbound = << >>
  /\ peer = NoPeer

\* In the loop a status() or target() call that is due can always be made
LoopCallsEnabled ==
  /\ pc = "status" => \E ubExh \in BOOLEAN, ubLink \in AnyLink :
                         Bounded(NavStatus(nav, trk, tracing, ubExh, ubLink))
  /\ pc = "target" => Bounded(NavTarget(nav, trk, tracing))

\* The caller's loop runs on for ever: a call that is due is made (the
\* loop does not rest before a status() or a target() call), and the
\* stepper advances whenever it can
LoopFairness ==
  /\ []<>(pc # "status")
  /\ []<>(pc # "target")
  /\ WF_vars(Advance)

SpecLoop == InitLoop /\ [][NextLine]_vars /\ LoopFairness

\* The x position of the world portal track t is heading for
ExitX(t) == IF t.dx > 0 THEN Detector[Len(Detector)].hi ELSE Detector[1].lo

\* status() reports the world portal ahead of the track's start as reached
AtExit ==
  last = "status" /\ nav.status = "on_portal" /\ trk.x = ExitX(start)

\* C40: a straight track started inside the detector and followed by the
\* loop status() -> target() -> advance by distance_to_next eventually has
\* status() report on_portal at the world portal it is heading for.
C40_ReachesWorldPortal == <>AtExit

====
